---- MODULE Spec2Model ----
(***************************************************************************)
(* A model of scopecuisine's StackSaver process                            *)
(* (src/scopecuisine/saving_process.py) together with the host that feeds  *)
(* its queues and toggles its events.                                      *)
(*                                                                         *)
(* The process is modelled one step per access to an object it shares      *)
(* with the host (an Event or a Queue); the code between two such accesses *)
(* touches only the process's own fields and the output directory, which   *)
(* the process owns, and is folded into the step that precedes it.         *)
(* An uncaught Python exception ends the process: pc = "crashed" and exc   *)
(* names the exception.                                                    *)
(***************************************************************************)
EXTENDS Integers, Sequences, FiniteSets, TLC

(***************************************************************************)
(* Bounds of the model.                                                    *)
(***************************************************************************)
\* longest saving_parameter_queue the host builds up
MaxParamQueue == 1
\* longest duration_queue the host builds up
MaxDurQueue == 1
\* number of volumes the host puts on save_queue
MaxFrames == 1

(***************************************************************************)
(* Program constants.                                                      *)
(***************************************************************************)
B_TO_MB == 1048576
DefaultNVolumes == 10000
DefaultChunkSize == 20
DefaultOptimalChunkMB == 200

\* Optional[...]: Python's None
None == [none |-> TRUE]

\* the directories SavingParameters.output_dir ranges over: Path.home() and
\* one directory chosen by the host
Dirs == {"home", "data"}

\* the durations the host sends
Durations == {0, 1}

\* volumerate is a float in the code; the model keeps it as an exact
\* fraction <<numerator, denominator>>
Rates == {<<1, 1>>, <<5, 2>>}

\* a volume as it travels through save_queue: its position in the stream and
\* its numpy shape (planes, height, width)
FrameShape == <<1, 512, 512>>
Frame(n) == [kind |-> "array", id |-> n, shape |-> FrameShape]

\* the bound method self.receive_frame, as an object
ReceiveFrameMethod == [kind |-> "method", name |-> "receive_frame"]

\* whether a Python object has a .shape attribute
HasShape(v) == v.kind = "array"

\* SavingParameters()
DefaultParameters ==
    [output_dir |-> "home", n_planes |-> 1, n_volumes |-> DefaultNVolumes,
     chunk_size |-> DefaultChunkSize,
     optimal_chunk_MB_RAM |-> DefaultOptimalChunkMB,
     volumerate |-> <<1, 1>>, voxel_size |-> <<1, 1, 1>>]

\* the configurations the host sends
HostParameters ==
    { [DefaultParameters EXCEPT !.output_dir = "data", !.n_volumes = 2,
                                !.optimal_chunk_MB_RAM = 1, !.volumerate = r] :
        r \in Rates }

VARIABLES
    stop_event,             \* Event, set by the host
    saving_event,           \* Event, set by the host, cleared by both
    saver_stopped_event,    \* Event, set by the process
    duration_queue,         \* Queue of durations
    save_queue,             \* ArrayQueue of volumes
    saving_parameter_queue, \* Queue of SavingParameters
    saved_status_queue,     \* Queue of SavingStatus
    save_parameters,        \* Optional[SavingParameters]
    i_in_chunk, i_chunk, i_volume,
    current_data,           \* None or the chunk buffer
    fs,                     \* the "original" directory under each output_dir
    pc,                     \* where the process is in run() / save_loop()
    exc,                    \* the exception that ended the process, or "none"
    n_put,                  \* number of volumes the host has put on save_queue
    run                     \* history of the current (or last) saving run

\* get_last_parameters (src/thecolonel/thecolonel.py) and the queue it drains
VARIABLES
    dq,        \* parameter_queue
    d_pc,      \* "idle", or "get" inside a call
    d_params,  \* the local params
    d_ret,     \* what the calls so far returned, in order
    d_init,    \* the queue as it was before the first call
    d_put      \* number of items put on the queue since then

\* send_email_end (src/scopecuisine/email_notification.py)
VARIABLES
    e_pc,      \* "not_called", "called", "send", "returned" or "raised"
    e_args,    \* the arguments of the call
    e_user,    \* the user handed to yagmail.SMTP
    e_sends,   \* number of calls of yag.send
    e_failure, \* what yag.send raised, or "none"
    e_exc      \* the exception that escaped send_email_end, or "none"

vars == <<stop_event, saving_event, saver_stopped_event, duration_queue,
          save_queue, saving_parameter_queue, saved_status_queue,
          save_parameters, i_in_chunk, i_chunk, i_volume, current_data, fs,
          pc, exc, n_put, run,
          dq, d_pc, d_params, d_ret, d_init, d_put,
          e_pc, e_args, e_user, e_sends, e_failure, e_exc>>

\* the variables of the StackSaver process and its host
saver == <<stop_event, saving_event, saver_stopped_event, duration_queue,
           save_queue, saving_parameter_queue, saved_status_queue,
           save_parameters, i_in_chunk, i_chunk, i_volume, current_data, fs,
           pc, exc, n_put, run>>

drain == <<dq, d_pc, d_params, d_ret, d_init, d_put>>

email == <<e_pc, e_args, e_user, e_sends, e_failure, e_exc>>

shared == <<stop_event, saving_event, saver_stopped_event, duration_queue,
            save_queue, saving_parameter_queue, saved_status_queue, n_put>>

local == <<save_parameters, i_in_chunk, i_chunk, i_volume, current_data, fs,
           exc, run>>

(***************************************************************************)
(* The output directory.  fs[d] is the directory Path(d) / "original":     *)
(* whether it exists, its chunk files and its stack_metadata.json.  A file *)
(* marked stale was there before the process started.                      *)
(***************************************************************************)
NoDir == [exists |-> FALSE, chunks |-> {}, meta |-> None]

StaleChunk == [idx |-> 0, stale |-> TRUE, stack |-> <<>>]

\* a complete earlier dataset
StaleDataset ==
    [exists |-> TRUE, chunks |-> {StaleChunk}, meta |-> [stale |-> TRUE]]

\* chunk files of an earlier acquisition that never wrote its metadata
StalePartial == [exists |-> TRUE, chunks |-> {StaleChunk}, meta |-> None]

HasStaleFile(dir) ==
    \/ \E c \in dir.chunks : c.stale
    \/ (dir.meta # None /\ dir.meta.stale)

(***************************************************************************)
(* The sequential code of the process works on a record s of its own       *)
(* fields (sp = save_parameters, cd = current_data, iic = i_in_chunk,      *)
(* ic = i_chunk, iv = i_volume), the output directories (fs), what it has  *)
(* put on saved_status_queue (sq), the run history (run) and the pending   *)
(* exception (exc).  Once an exception is raised the rest of the code is   *)
(* skipped.                                                                *)
(***************************************************************************)
Raise(s, e) == [s EXCEPT !.exc = e]

\* a volume count that rounds the product down
FloorRate(rate, d) == (rate[1] * d) \div rate[2]

\* ceil(volumerate * d), volumerate = rate[1] / rate[2], d >= 0
CeilRate(rate, d) == (rate[1] * d + rate[2] - 1) \div rate[2]

\* output_dir: Path(self.save_parameters.output_dir) / "original", created
\* when absent
OutputDir(s) ==
    IF s.exc # "none" THEN s
    ELSE IF s.sp = None THEN Raise(s, "AttributeError")
    ELSE [s EXCEPT !.fs[s.sp.output_dir].exists = TRUE]

\* (self.output_dir / "stack_metadata.json").is_file()
StaleDatasetFoundNever(f, d) == FALSE

StaleDatasetFound(f, d) == f[d].meta # None

\* the start-up code of save_loop
StartUp(s) ==
    LET s1 == OutputDir([s EXCEPT !.iic = 0, !.ic = 0, !.iv = 0, !.cd = None])
        d  == s1.sp.output_dir
        found == StaleDatasetFound(s1.fs, d)
        hist == [started |-> TRUE, dir |-> d, stale |-> s1.fs[d].meta # None,
                 fed |-> 0, changed |-> FALSE, exit |-> "none",
                 log |-> <<>>, reports |-> 0]
    IN  IF s1.exc # "none" THEN s1
        ELSE IF found
             THEN [s1 EXCEPT !.fs[d] = NoDir, !.run = hist]
             ELSE [s1 EXCEPT !.run = hist]

\* update_saved_status_queue
UpdateSavedStatusQueue(s) ==
    IF s.exc # "none" THEN s
    ELSE [s EXCEPT
            !.sq = Append(@, [target_params |-> s.sp, i_in_chunk |-> s.iic,
                              i_chunk |-> s.ic, i_volume |-> s.iv]),
            !.run.reports = @ + 1]

\* save_chunk: the first i_in_chunk rows of the buffer go to file i_chunk
SaveChunk(s) ==
    LET s1 == OutputDir(s)
        d  == s1.sp.output_dir
        file == [idx |-> s1.ic, stale |-> FALSE,
                 stack |-> SubSeq(s1.cd.rows, 1, s1.iic)]
    IN  IF s1.exc # "none" THEN s1
        ELSE IF s1.cd = None THEN Raise(s1, "TypeError")
        ELSE [s1 EXCEPT
                !.fs[d].chunks = {c \in @ : c.idx # s1.ic} \cup {file},
                !.run.log = Append(@, [kind |-> "chunk", idx |-> s1.ic,
                                       stack |-> file.stack, dir |-> d]),
                !.cd.rows = <<>>,
                !.iic = 0,
                !.ic = @ + 1]

\* finalize_dataset: write stack_metadata.json
FinalizeDataset(s) ==
    LET s1 == OutputDir(s)
        d  == s1.sp.output_dir
        meta == [stale |-> FALSE,
                 shape_full |-> <<s1.sp.n_volumes>> \o s1.cd.shape,
                 shape_block |-> <<s1.sp.chunk_size>> \o s1.cd.shape,
                 crop_start |-> <<0, 0, 0, 0>>, crop_end |-> <<0, 0, 0, 0>>,
                 padding |-> <<0, 0, 0, 0>>,
                 voxel_size |-> s1.sp.voxel_size]
    IN  IF s1.exc # "none" THEN s1
        \* the file is opened (and so created, empty) before the dictionary
        \* is built
        ELSE IF s1.cd = None
             THEN Raise([s1 EXCEPT !.fs[d].meta = [stale |-> FALSE,
                                                    empty |-> TRUE]],
                        "AttributeError")
        ELSE [s1 EXCEPT
                !.fs[d].meta = meta,
                !.run.log = Append(@, [kind |-> "meta",
                                       shape_full |-> meta.shape_full,
                                       dir |-> d])]

\* calculate_optimal_size: the chunk size that fits optimal_chunk_MB_RAM.
\* int(optimal / (2 * planes * height * width / B_TO_MB)) is computed here
\* in integers, which agrees with the float computation for the shapes of
\* the model (powers of two).
CalculateOptimalSize(volume, s) ==
    IF s.exc # "none" THEN s
    ELSE IF ~HasShape(volume) THEN Raise(s, "AttributeError")
    ELSE LET bytes == 2 * volume.shape[1] * volume.shape[2] * volume.shape[3]
         IN  IF bytes = 0 THEN Raise(s, "ZeroDivisionError")
             ELSE [s EXCEPT !.sp.chunk_size =
                       (s.sp.optimal_chunk_MB_RAM * B_TO_MB) \div bytes]

\* np.empty((chunk_size, *volume.shape)); rows holds what has been copied
\* into the first i_in_chunk rows since the last flush
Allocate(volume, s) ==
    IF s.exc # "none" THEN s
    ELSE [s EXCEPT !.cd = [cap |-> s.sp.chunk_size, shape |-> volume.shape,
                           rows |-> <<>>]]

\* self.current_data[self.i_in_chunk, :, :, :] = volume
CopyIntoBuffer(volume, s) ==
    IF s.exc # "none" THEN s
    ELSE IF s.iic >= s.cd.cap THEN Raise(s, "IndexError")
    ELSE IF ~HasShape(volume) THEN Raise(s, "TypeError")
    ELSE IF volume.shape # s.cd.shape THEN Raise(s, "ValueError")
    ELSE [s EXCEPT !.cd.rows = Append(@, volume.id)]

\* if self.i_in_chunk == self.save_parameters.chunk_size
ChunkFull(s) == s.iic = s.sp.chunk_size

\* fill_dataset
FillDataset(volume, s) ==
    LET s1 == IF s.cd = None
              THEN Allocate(volume, CalculateOptimalSize(volume, s))
              ELSE s
        s2 == CopyIntoBuffer(volume, s1)
        s3 == IF s2.exc # "none" THEN s2
              ELSE UpdateSavedStatusQueue(
                       [s2 EXCEPT !.iv = @ + 1, !.iic = @ + 1])
    IN  IF s3.exc = "none" /\ ChunkFull(s3) THEN SaveChunk(s3) ELSE s3

\* what save_loop hands to fill_dataset: the method self.receive_frame
\* itself; it is never called
FillArgument == ReceiveFrameMethod

\* if self.i_volume > 0
FinalizeNeededAlways(s) == s.iv >= 0

FinalizeNeeded(s) == s.iv > 0

\* the end of save_loop: finalize the dataset if a volume was acquired
Finalize(s) ==
    IF FinalizeNeeded(s)
    THEN FinalizeDataset(UpdateSavedStatusQueue(
             IF s.iic # 0 THEN SaveChunk(s) ELSE s))
    ELSE s

\* receive_parameters on a queue whose head is there
ReceiveParameters(q, s) ==
    IF q = <<>> THEN s ELSE [s EXCEPT !.sp = Head(q)]

\* receive_duration on a queue whose head is there
ReceiveDuration(q, s) ==
    IF q = <<>> THEN s
    ELSE IF s.sp = None THEN Raise(s, "AttributeError")
    ELSE [s EXCEPT !.sp.n_volumes = CeilRate(s.sp.volumerate, Head(q))]

\* Queue.get(timeout=...) under pass_if_empty: what is left on the queue
Rest(q) == IF q = <<>> THEN q ELSE Tail(q)

\* while self.i_volume < n_volumes and saving_event.is_set()
\*       and not stop_event.is_set()
SaveLoopContinues ==
    /\ i_volume < save_parameters.n_volumes
    /\ saving_event
    /\ ~stop_event

\* while not self.stop_event.is_set()
ProcessLoopForever == TRUE

ProcessLoopContinues == ~stop_event

\* if self.saving_event.is_set() and self.save_parameters is not None
SavingRequested == saving_event /\ save_parameters # None

(***************************************************************************)
(* The process's own state as a record, and back.                          *)
(***************************************************************************)
ProcState ==
    [sp |-> save_parameters, cd |-> current_data, iic |-> i_in_chunk,
     ic |-> i_chunk, iv |-> i_volume, fs |-> fs, sq |-> saved_status_queue,
     run |-> run, exc |-> "none"]

\* s becomes the process's state; the process goes on at next unless an
\* exception is pending, which ends it
Commit(s, next) ==
    /\ save_parameters' = s.sp
    /\ current_data' = s.cd
    /\ i_in_chunk' = s.iic
    /\ i_chunk' = s.ic
    /\ i_volume' = s.iv
    /\ fs' = s.fs
    /\ saved_status_queue' = s.sq
    /\ run' = s.run
    /\ exc' = s.exc
    /\ pc' = IF s.exc = "none" THEN next ELSE "crashed"

NoRun ==
    [started |-> FALSE, dir |-> "home", stale |-> FALSE, fed |-> 0,
     changed |-> FALSE, exit |-> "none", log |-> <<>>, reports |-> 0]

\* get_last_parameters has not been called; the queue holds q
DrainNotCalled(q) ==
    /\ dq = q
    /\ d_pc = "idle"
    /\ d_params = None
    /\ d_ret = <<>>
    /\ d_init = q
    /\ d_put = 0

\* send_email_end has not been called
EmailNotCalled ==
    /\ e_pc = "not_called"
    /\ e_args = None
    /\ e_user = None
    /\ e_sends = 0
    /\ e_failure = "none"
    /\ e_exc = "none"

\* the state after StackSaver.__init__ and start(); the output directories
\* hold whatever earlier acquisitions left there
Init ==
    /\ stop_event = FALSE
    /\ saving_event = FALSE
    /\ saver_stopped_event = FALSE
    /\ duration_queue = <<>>
    /\ save_queue = <<>>
    /\ saving_parameter_queue = <<>>
    /\ saved_status_queue = <<>>
    /\ save_parameters = DefaultParameters
    /\ i_in_chunk = 0
    /\ i_chunk = 0
    /\ i_volume = 0
    /\ current_data = None
    /\ \E left \in {NoDir, StaleDataset, StalePartial} :
          fs = [d \in Dirs |-> left]
    /\ pc = "run_while"
    /\ exc = "none"
    /\ n_put = 0
    /\ run = NoRun
    /\ DrainNotCalled(<<>>)
    /\ EmailNotCalled

\* the process has neither left run() nor been ended by an exception
Running == pc \notin {"stopped", "crashed"}

(***************************************************************************)
(* The host: the owner of the events and the producer of the queues.       *)
(***************************************************************************)
HostSetStop ==
    /\ ~stop_event
    /\ stop_event' = TRUE
    /\ UNCHANGED <<saving_event, saver_stopped_event, duration_queue,
                   save_queue, saving_parameter_queue, saved_status_queue,
                   n_put, pc>>
    /\ UNCHANGED local
    /\ UNCHANGED <<drain, email>>

HostStartSaving ==
    /\ ~saving_event
    /\ saving_event' = TRUE
    /\ UNCHANGED <<stop_event, saver_stopped_event, duration_queue,
                   save_queue, saving_parameter_queue, saved_status_queue,
                   n_put, pc>>
    /\ UNCHANGED local
    /\ UNCHANGED <<drain, email>>

HostStopSaving ==
    /\ saving_event
    /\ saving_event' = FALSE
    /\ UNCHANGED <<stop_event, saver_stopped_event, duration_queue,
                   save_queue, saving_parameter_queue, saved_status_queue,
                   n_put, pc>>
    /\ UNCHANGED local
    /\ UNCHANGED <<drain, email>>

HostPutParameters ==
    /\ Len(saving_parameter_queue) < MaxParamQueue
    /\ \E p \in HostParameters :
          saving_parameter_queue' = Append(saving_parameter_queue, p)
    /\ UNCHANGED <<stop_event, saving_event, saver_stopped_event,
                   duration_queue, save_queue, saved_status_queue, n_put, pc>>
    /\ UNCHANGED local
    /\ UNCHANGED <<drain, email>>

HostPutDuration ==
    /\ Len(duration_queue) < MaxDurQueue
    /\ \E d \in Durations :
          duration_queue' = Append(duration_queue, d)
    /\ UNCHANGED <<stop_event, saving_event, saver_stopped_event,
                   save_queue, saving_parameter_queue, saved_status_queue,
                   n_put, pc>>
    /\ UNCHANGED local
    /\ UNCHANGED <<drain, email>>

HostPutFrame ==
    /\ n_put < MaxFrames
    /\ n_put' = n_put + 1
    /\ save_queue' = Append(save_queue, Frame(n_put + 1))
    /\ UNCHANGED <<stop_event, saving_event, saver_stopped_event,
                   duration_queue, saving_parameter_queue,
                   saved_status_queue, pc>>
    /\ UNCHANGED local
    /\ UNCHANGED <<drain, email>>

(***************************************************************************)
(* StackSaver.run                                                          *)
(***************************************************************************)
\* while not self.stop_event.is_set(): ... ; leaving the loop ends run()
RunWhile ==
    /\ pc = "run_while"
    /\ pc' = IF ProcessLoopContinues THEN "run_if" ELSE "stopped"
    /\ UNCHANGED shared
    /\ UNCHANGED local
    /\ UNCHANGED <<drain, email>>

\* if saving_event.is_set() and save_parameters is not None: save_loop()
RunIf ==
    /\ pc = "run_if"
    /\ pc' = IF SavingRequested THEN "sl_startup" ELSE "idle_parameters"
    /\ UNCHANGED shared
    /\ UNCHANGED local
    /\ UNCHANGED <<drain, email>>

\* else: self.receive_parameters()
IdleReceiveParameters ==
    /\ pc = "idle_parameters"
    /\ Commit(ReceiveParameters(saving_parameter_queue, ProcState),
              "idle_duration")
    /\ saving_parameter_queue' = Rest(saving_parameter_queue)
    /\ UNCHANGED <<stop_event, saving_event, saver_stopped_event,
                   duration_queue, save_queue, n_put>>
    /\ UNCHANGED <<drain, email>>

\* self.receive_duration()
IdleReceiveDuration ==
    /\ pc = "idle_duration"
    /\ Commit(ReceiveDuration(duration_queue, ProcState), "run_while")
    /\ duration_queue' = Rest(duration_queue)
    /\ UNCHANGED <<stop_event, saving_event, saver_stopped_event,
                   saving_parameter_queue, save_queue, n_put>>
    /\ UNCHANGED <<drain, email>>

(***************************************************************************)
(* StackSaver.save_loop                                                    *)
(***************************************************************************)
\* the start-up code: counters reset, a stale dataset removed; run.fed
\* records how many volumes the host has fed by then
SaveLoopStartUp ==
    /\ pc = "sl_startup"
    /\ Commit([StartUp(ProcState) EXCEPT !.run.fed = n_put], "sl_while")
    /\ UNCHANGED shared
    /\ UNCHANGED <<drain, email>>

\* the test of the main saving loop; run.exit records why it was left
SaveLoopWhile ==
    /\ pc = "sl_while"
    /\ IF SaveLoopContinues
       THEN /\ pc' = "sl_parameters"
            /\ run' = run
       ELSE /\ pc' = "sl_finalize"
            /\ run' = [run EXCEPT !.exit =
                         IF i_volume >= save_parameters.n_volumes
                         THEN "target"
                         ELSE IF ~saving_event THEN "cleared" ELSE "stop"]
    /\ UNCHANGED shared
    /\ UNCHANGED <<save_parameters, i_in_chunk, i_chunk, i_volume,
                   current_data, fs, exc>>
    /\ UNCHANGED <<drain, email>>

\* self.receive_parameters() inside the loop
SaveLoopReceiveParameters ==
    /\ pc = "sl_parameters"
    /\ Commit([ReceiveParameters(saving_parameter_queue, ProcState)
                  EXCEPT !.run.changed = @ \/ saving_parameter_queue # <<>>],
              "sl_duration")
    /\ saving_parameter_queue' = Rest(saving_parameter_queue)
    /\ UNCHANGED <<stop_event, saving_event, saver_stopped_event,
                   duration_queue, save_queue, n_put>>
    /\ UNCHANGED <<drain, email>>

\* self.receive_duration() inside the loop
SaveLoopReceiveDuration ==
    /\ pc = "sl_duration"
    /\ Commit([ReceiveDuration(duration_queue, ProcState)
                  EXCEPT !.run.changed = @ \/ duration_queue # <<>>],
              "sl_fill")
    /\ duration_queue' = Rest(duration_queue)
    /\ UNCHANGED <<stop_event, saving_event, saver_stopped_event,
                   saving_parameter_queue, save_queue, n_put>>
    /\ UNCHANGED <<drain, email>>

\* self.fill_dataset(self.receive_frame): save_queue is not read
SaveLoopFill ==
    /\ pc = "sl_fill"
    /\ Commit(FillDataset(FillArgument, ProcState), "sl_while")
    /\ UNCHANGED shared
    /\ UNCHANGED <<drain, email>>

\* after the loop: if self.i_volume > 0, finalize the dataset
SaveLoopFinalize ==
    /\ pc = "sl_finalize"
    /\ Commit(Finalize(ProcState), "sl_clear")
    /\ UNCHANGED <<stop_event, saving_event, saver_stopped_event,
                   duration_queue, save_queue, saving_parameter_queue, n_put>>
    /\ UNCHANGED <<drain, email>>

\* self.current_data = None; self.saving_event.clear()
SaveLoopClear ==
    /\ pc = "sl_clear"
    /\ current_data' = None
    /\ saving_event' = FALSE
    /\ pc' = "sl_stopped"
    /\ UNCHANGED <<stop_event, saver_stopped_event, duration_queue,
                   save_queue, saving_parameter_queue, saved_status_queue,
                   n_put>>
    /\ UNCHANGED <<save_parameters, i_in_chunk, i_chunk, i_volume, fs, exc,
                   run>>
    /\ UNCHANGED <<drain, email>>

\* what save_loop leaves in self.save_parameters
ParametersKept == save_parameters

ParametersAfterRun == None

\* self.saver_stopped_event.set()
SaverStoppedLeftAsIs == saver_stopped_event

SaverStoppedAfterRun == TRUE

\* self.save_parameters = None; self.saver_stopped_event.set()
SaveLoopStopped ==
    /\ pc = "sl_stopped"
    /\ save_parameters' = ParametersAfterRun
    /\ saver_stopped_event' = SaverStoppedAfterRun
    /\ pc' = "run_while"
    /\ UNCHANGED <<stop_event, saving_event, duration_queue, save_queue,
                   saving_parameter_queue, saved_status_queue, n_put>>
    /\ UNCHANGED <<i_in_chunk, i_chunk, i_volume, current_data, fs, exc, run>>
    /\ UNCHANGED <<drain, email>>

Process ==
    \/ RunWhile
    \/ RunIf
    \/ IdleReceiveParameters
    \/ IdleReceiveDuration
    \/ SaveLoopStartUp
    \/ SaveLoopWhile
    \/ SaveLoopReceiveParameters
    \/ SaveLoopReceiveDuration
    \/ SaveLoopFill
    \/ SaveLoopFinalize
    \/ SaveLoopClear
    \/ SaveLoopStopped

Host ==
    \/ HostSetStop
    \/ HostStartSaving
    \/ HostStopSaving
    \/ HostPutParameters
    \/ HostPutDuration
    \/ HostPutFrame

Next == Process \/ Host

Spec == Init /\ [][Next]_vars

\* the operating system keeps scheduling the process while it can run
FairSpec == Spec /\ WF_vars(Process)


(***************************************************************************)
(* Properties                                                              *)
(***************************************************************************)
\* the process is inside the main saving loop of the current run
InSavingLoop == pc \in {"sl_while", "sl_parameters", "sl_duration", "sl_fill"}

\* the current run has been through its start-up code and is not yet over
InRun == run.started /\ (InSavingLoop \/ pc \in {"sl_finalize", "sl_clear",
                                                 "sl_stopped"})

\* the last run left its saving loop and went through the finalization
RunFinalized ==
    /\ run.started
    /\ run.exit # "none"
    /\ pc # "sl_finalize"

\* the last run is over: finalized and not yet torn down, or ended by an
\* exception raised inside its saving loop
RunOver ==
    /\ run.started
    /\ \/ pc = "sl_clear"
       \/ (pc = "crashed" /\ run.exit = "none")

\* run.log is what a run of N volumes in chunks of C writes: the chunk
\* files 0 .. ceil(N/C)-1, all of C volumes but the last, then the metadata
\* with N as the volume count of shape_full
RolloverLog(N, C) ==
    /\ C >= 1
    /\ LET K == (N + C - 1) \div C
       IN  /\ Len(run.log) = K + 1
           /\ \A i \in 1..K :
                 /\ run.log[i].kind = "chunk"
                 /\ run.log[i].idx = i - 1
                 /\ Len(run.log[i].stack) =
                       IF i < K THEN C ELSE N - C * (K - 1)
           /\ run.log[K + 1].kind = "meta"
           /\ run.log[K + 1].shape_full[1] = N

\* C1: a run whose configuration was not changed and which was not
\* cancelled, with target N >= 1 and N volumes fed to it, is over with exactly
\* ceil(N/C) chunk files 0 .. ceil(N/C)-1 of C volumes (the last one of the
\* rest) followed by a metadata file whose shape_full counts N volumes.
C1_ChunkRollover ==
    ( /\ RunOver
      /\ ~run.changed
      /\ run.exit \notin {"cleared", "stop"}
      /\ save_parameters.n_volumes >= 1
      /\ run.fed >= save_parameters.n_volumes )
    => RolloverLog(save_parameters.n_volumes, save_parameters.chunk_size)

\* The premise of C2, C3 and C4 (a run in which a volume was retrieved and
\* written): the method object handed to fill_dataset has no shape, so the
\* first pass through the loop body ends the process before anything is
\* counted, reported, buffered or written.  This holds in every reachable
\* state.
NoVolumeIsEverWritten ==
    /\ i_volume = 0
    /\ i_in_chunk = 0
    /\ i_chunk = 0
    /\ current_data = None
    /\ run.log = <<>>
    /\ saved_status_queue = <<>>
    /\ (pc = "crashed" /\ run.exit = "none" /\ run.started
          => exc = "AttributeError")

\* C5: a run that ends (target reached, saving-active cleared or stop set)
\* without a volume written has written no chunk file and no metadata file
\* and has put no progress report on the status queue.
C5_ZeroVolumeRunWritesNothing ==
    (RunFinalized /\ i_volume = 0)
    => /\ run.log = <<>>
       /\ run.reports = 0
       /\ saved_status_queue = <<>>
       /\ \A d \in Dirs : fs[d].meta # None => fs[d].meta.stale

\* a run was ended by clearing saving-active before any volume arrived, and
\* has been torn down
C5_Witness ==
    /\ RunFinalized
    /\ run.exit = "cleared"
    /\ i_volume = 0
    /\ pc = "run_while"
    /\ saver_stopped_event

\* C6: when stack_metadata.json was in the output directory at the start of
\* a run, then from the end of the start-up code (so before any chunk file
\* of the run is written) to the end of the run no file of the earlier
\* dataset is in that directory.
C6_StaleDatasetRemoved ==
    (InRun /\ run.stale) => ~HasStaleFile(fs[run.dir])

\* a run started on a directory holding an earlier dataset, and is in its
\* saving loop with the directory gone
C6_Witness ==
    /\ InRun
    /\ run.stale
    /\ pc = "sl_fill"
    /\ fs[run.dir] = NoDir

\* C7: once the stop signal is set, the process eventually is no longer
\* running: it has left the saving loop and the outer loop (or an uncaught
\* exception has ended it); no queue read holds it back.
C7_StopTerminates == stop_event ~> ~Running

\* the process left run() after the stop signal ended a saving loop
C7_Witness ==
    /\ pc = "stopped"
    /\ stop_event
    /\ run.started
    /\ run.exit = "stop"

\* C8 (as claimed): the saver-stopped flag is never set while the process
\* is still in its outer loop with the stop signal not set.
C8_SetOnlyAfterLoopExit ==
    ~(saver_stopped_event /\ Running /\ ~stop_event)

\* C8 (amended): the saver-stopped flag is raised only by the last step of
\* the teardown of a saving run, after the loop of that run was left and
\* the chunk buffer dropped, together with the clearing of the current
\* configuration, and the process then returns to its outer loop.
C8_SetByTeardown ==
    [][ (~saver_stopped_event /\ saver_stopped_event')
        => /\ pc = "sl_stopped"
           /\ run.exit # "none"
           /\ current_data = None
           /\ save_parameters' = None
           /\ pc' = "run_while" ]_vars

\* the flag is set and the process is back in its outer loop, stop not set
C8_Witness ==
    /\ saver_stopped_event
    /\ pc = "run_while"
    /\ ~stop_event
    /\ save_parameters = None

\* C9 (as claimed): when the process has reached Stopped, the saver-stopped
\* flag is set, whether stop was observed while Idle or while Saving.
C9_StoppedSetsFlag == (pc = "stopped") => saver_stopped_event

\* C9 (amended): when the process has reached Stopped after a saving run,
\* the saver-stopped flag is set: the teardown of that run set it.
C9_StoppedAfterRunHasFlag ==
    (pc = "stopped" /\ run.started) => saver_stopped_event

\* the stop signal ended a saving loop, and the process then left run()
\* with the flag set
C9_Witness ==
    /\ pc = "stopped"
    /\ run.started
    /\ run.exit = "stop"
    /\ saver_stopped_event

\* The part of C10 that the code keeps: run() is left only once the stop
\* signal is set.
StoppedOnlyAfterStop == (pc = "stopped") => stop_event

\* C10: after a run was ended by clearing saving-active, and as long as the
\* stop signal is not set, the process is alive (neither Stopped nor ended
\* by an exception).
C10_ClearKeepsProcessAlive ==
    (run.started /\ run.exit = "cleared" /\ ~stop_event) => Running

\* C11: in a run to which no volume was ever fed (save_queue is empty at
\* every poll), the passes through the loop body change nothing and raise
\* nothing: the process is not ended by an exception, no counter moves, no
\* progress report is put and no buffer is allocated.
C11_EmptyPollIsNoOp ==
    (run.started /\ run.exit = "none" /\ n_put = 0)
    => /\ pc # "crashed"
       /\ exc = "none"
       /\ i_in_chunk = 0 /\ i_chunk = 0 /\ i_volume = 0
       /\ current_data = None
       /\ run.reports = 0


\* ---------------------------------------------------------------------
\* get_last_parameters (src/thecolonel/thecolonel.py)

MaxItems == 3
MaxCalls == 2
MaxDrainPuts == 1

\* the values a parameter queue carries
Items == {[item |-> "A"], [item |-> "B"], [item |-> "C"]}

\* the StackSaver as constructed and never started
SaverNotStarted ==
    /\ stop_event = FALSE
    /\ saving_event = FALSE
    /\ saver_stopped_event = FALSE
    /\ duration_queue = <<>>
    /\ save_queue = <<>>
    /\ saving_parameter_queue = <<>>
    /\ saved_status_queue = <<>>
    /\ save_parameters = DefaultParameters
    /\ i_in_chunk = 0
    /\ i_chunk = 0
    /\ i_volume = 0
    /\ current_data = None
    /\ fs = [d \in Dirs |-> NoDir]
    /\ pc = "run_while"
    /\ exc = "none"
    /\ n_put = 0
    /\ run = NoRun

\* a loop that keeps the first value it received instead of the last
KeepFirst(params, item) == IF params = None THEN item ELSE params

\* params = parameter_queue.get(timeout=timeout): each value received
\* replaces the one before
Latest(params, item) == item

\* the queue holds any x1..xn, 0 <= n <= MaxItems, when the first call starts
DrainInit ==
    /\ SaverNotStarted
    /\ EmailNotCalled
    /\ \E n \in 0..MaxItems : \E q \in [1..n -> Items] : DrainNotCalled(q)

\* params = None on entry
DrainCall ==
    /\ d_pc = "idle"
    /\ Len(d_ret) < MaxCalls
    /\ d_pc' = "get"
    /\ d_params' = None
    /\ UNCHANGED <<dq, d_ret, d_init, d_put>>
    /\ UNCHANGED <<saver, email>>

\* parameter_queue.get returns a value: stay in the loop
DrainGet ==
    /\ d_pc = "get"
    /\ dq # <<>>
    /\ d_params' = Latest(d_params, Head(dq))
    /\ dq' = Tail(dq)
    /\ UNCHANGED <<d_pc, d_ret, d_init, d_put>>
    /\ UNCHANGED <<saver, email>>

\* parameter_queue.get raises Empty: break and return params
DrainEmpty ==
    /\ d_pc = "get"
    /\ dq = <<>>
    /\ d_ret' = Append(d_ret, d_params)
    /\ d_pc' = "idle"
    /\ UNCHANGED <<dq, d_params, d_init, d_put>>
    /\ UNCHANGED <<saver, email>>

\* another process puts a value on the queue
DrainProducer ==
    /\ d_put < MaxDrainPuts
    /\ \E x \in Items : dq' = Append(dq, x)
    /\ d_put' = d_put + 1
    /\ UNCHANGED <<d_pc, d_params, d_ret, d_init>>
    /\ UNCHANGED <<saver, email>>

DrainNext == DrainCall \/ DrainGet \/ DrainEmpty \/ DrainProducer

DrainSpec == DrainInit /\ [][DrainNext]_vars

\* C12: called on a queue holding x1..xn, n >= 1, with nothing put on the
\* queue meanwhile, get_last_parameters returns xn and leaves the queue empty;
\* the next call returns None (the Empty that ends the loop is caught, so
\* each call ends by returning).
C12_LatestValueDrain ==
    (d_put = 0 /\ Len(d_init) >= 1)
    => /\ Len(d_ret) >= 1 => /\ d_ret[1] = d_init[Len(d_init)]
                             /\ dq = <<>>
       /\ Len(d_ret) >= 2 => d_ret[2] = None

C12_Witness ==
    /\ d_put = 0
    /\ Len(d_init) = MaxItems
    /\ d_init[1] # d_init[MaxItems]
    /\ Len(d_ret) = 2


\* ---------------------------------------------------------------------
\* send_email_end (src/scopecuisine/email_notification.py)

Receivers == {"fish@lab.org", "not an address"}
Senders == {"bot@lab.org", "other@lab.org"}
Passwords == {"right", "wrong", ""}

\* sender_email = str: the argument is replaced by the type object
StrType == [kind |-> "type", name |-> "str"]

\* what yagmail.SMTP(user=..., password=...) can do: return, or raise
SmtpOutcomes == {"ok", "YagAddressError", "OtherError"}

\* what yag.send can do: return, or raise
SendOutcomes ==
    {"ok", "YagAddressError", "YagConnectionClosed", "YagInvalidEmailAddress",
     "SMTPAuthenticationError", "OtherError"}

\* an except clause that forgets the closed connection
SuppressedWithoutClosed(e) ==
    e \in {"YagAddressError", "YagInvalidEmailAddress"}

\* the except clause around yag.send
Suppressed(e) ==
    e \in {"YagAddressError", "YagConnectionClosed", "YagInvalidEmailAddress"}

EmailInit ==
    /\ SaverNotStarted
    /\ DrainNotCalled(<<>>)
    /\ EmailNotCalled

\* send_email_end(receiver_email, sender_email, sender_password)
EmailCall ==
    /\ e_pc = "not_called"
    /\ \E r \in Receivers, s \in Senders, p \in Passwords :
          e_args' = [receiver_email |-> r, sender_email |-> s,
                     sender_password |-> p]
    /\ e_pc' = "called"
    /\ UNCHANGED <<e_user, e_sends, e_failure, e_exc>>
    /\ UNCHANGED <<saver, drain>>

\* lines 5-9: the sender is overwritten and the connection object is built,
\* outside the try
EmailConstruct ==
    /\ e_pc = "called"
    /\ e_user' = StrType
    /\ \E o \in SmtpOutcomes :
          IF o = "ok"
          THEN e_pc' = "send" /\ e_exc' = "none"
          ELSE e_pc' = "raised" /\ e_exc' = o
    /\ UNCHANGED <<e_args, e_sends, e_failure>>
    /\ UNCHANGED <<saver, drain>>

\* lines 17-26: yag.send is called once; the three yagmail errors are
\* swallowed, anything else propagates
EmailSend ==
    /\ e_pc = "send"
    /\ e_sends' = e_sends + 1
    /\ \E o \in SendOutcomes :
          /\ e_failure' = IF o = "ok" THEN "none" ELSE o
          /\ IF o = "ok" \/ Suppressed(o)
             THEN e_pc' = "returned" /\ e_exc' = "none"
             ELSE e_pc' = "raised" /\ e_exc' = o
    /\ UNCHANGED <<e_args, e_user>>
    /\ UNCHANGED <<saver, drain>>

EmailNext == EmailCall \/ EmailConstruct \/ EmailSend

EmailSpec == EmailInit /\ [][EmailNext]_vars

\* C13: when yag.send fails with an address error, a closed connection or
\* an invalid-email error, send_email_end returns normally (no exception
\* escapes), and send was attempted exactly once.
C13_EmailFailureSuppressed ==
    (e_failure \in {"YagAddressError", "YagConnectionClosed",
                    "YagInvalidEmailAddress"})
    => /\ e_pc = "returned"
       /\ e_exc = "none"
       /\ e_sends = 1

C13_Witness ==
    /\ e_failure = "YagConnectionClosed"
    /\ e_pc = "returned"
    /\ e_sends = 1


\* n is the ceiling of rate * d, said without the division CeilRate uses
IsCeiling(n, rate, d) ==
    /\ n * rate[2] >= rate[1] * d
    /\ (n - 1) * rate[2] < rate[1] * d

\* C14: whenever the process receives a duration d while a configuration is
\* present, idle or inside a run, the configuration's n_volumes becomes
\* ceil(volumerate * d) and nothing else of it changes; a rate of 2.5 and a
\* duration of 10 give 25.
C14_DurationSetsVolumeCount ==
    [][ /\ CeilRate(<<5, 2>>, 10) = 25
        /\ ( /\ pc \in {"idle_duration", "sl_duration"}
             /\ pc' # pc
             /\ duration_queue # <<>>
             /\ save_parameters # None )
           => \E n \in 0..DefaultNVolumes :
                 /\ IsCeiling(n, save_parameters.volumerate,
                              Head(duration_queue))
                 /\ save_parameters' =
                       [save_parameters EXCEPT !.n_volumes = n]
                 /\ exc' = "none" ]_vars

C14_Witness ==
    /\ pc = "sl_fill"
    /\ run.changed
    /\ duration_queue = <<>>
    /\ save_parameters # None
    /\ save_parameters.n_volumes = 3


\* C19: the idle drain step never raises: no step of the process from
\* receive_parameters or receive_duration of the idle branch ends the process
\* with an exception, whatever the two queues hold and whether or not a
\* configuration is present.
C19_IdleDrainNeverRaises ==
    [][ (pc = "idle_parameters" \/ pc = "idle_duration")
        => (pc' # "crashed" /\ exc' = "none") ]_vars

\* C20: the process's own end-of-run clearing never erases a start request:
\* when the host has delivered a configuration and set the saving-active
\* signal after the previous run's loop was left (the loop was left because
\* the signal was clear), and stop is not set, the teardown step of the
\* process leaves the signal set.
C20_StartRequestNotErased ==
    [][ ( /\ pc = "sl_clear"
          /\ pc' # pc
          /\ run.exit = "cleared"
          /\ saving_event
          /\ ~stop_event
          /\ saving_parameter_queue # <<>> )
        => saving_event' ]_vars

====
